---- MODULE Spec2Model ----
(***************************************************************************)
(* Model of the `status` command, src/src/commands/status.js.              *)
(*                                                                         *)
(* infoHandler is a single sequential async function.  Each statement is   *)
(* one step of the model and `pc` is the position of the handler.  The     *)
(* external collaborators (loadConfig, createPublicClient,                 *)
(* getCurrentGameInfo and the formatters) are opaque: each call either     *)
(* returns a value drawn from a small set or throws an error object drawn  *)
(* from a small set.  Formatter results are kept symbolic as               *)
(* [fmt, arg, text] so that what was handed to which formatter is visible. *)
(* Labels and notices are written without their emoji and colour codes.    *)
(***************************************************************************)
EXTENDS Integers, Sequences, FiniteSets

VARIABLES pc, stdout, stderr, exitCode, config, publicClient, gameInfo,
          queryArgs, error, calls, failedStep

vars == <<pc, stdout, stderr, exitCode, config, publicClient, gameInfo,
          queryArgs, error, calls, failedStep>>

(* ---------------------------- bounds ----------------------------------- *)
MaxGameNumber == 2
MaxDifficulty == 1
MaxPrizePool == 1
MaxDrawTime == 2
MaxTimeUntilDraw == 1

(* --------------------------- constants --------------------------------- *)
STATUS_LABELS ==
  [GAME_ROUND |-> "Current Game Round",
   DIFFICULTY |-> "Difficulty",
   PRIZE_POOL |-> "Prize Pool",
   NEXT_DRAW |-> "Next Possible Draw Time",
   TIME_UNTIL_DRAW |-> "Time Until Draw"]

CURRENCY == [WLD |-> "WLD", ETH |-> "ETH"]

MILLISECONDS_PER_SECOND == 1000

\* The JavaScript value `undefined` where a string is expected.
Undefined == "<undefined>"

(* ------------------------ values of the environment -------------------- *)
Networks == {"worldchain", "Worldchain", "WORLDCHAIN", "mainnet", Undefined}
Addresses == {"0xA", "0xB"}
Configs == [network : Networks, contractAddress : Addresses]
NoConfig == [network |-> "<none>", contractAddress |-> "<none>"]

Clients == [config : Configs]
NoClient == [config |-> NoConfig]

GameInfos ==
  [gameNumber : 1..MaxGameNumber,
   difficulty : 0..MaxDifficulty,
   prizePool : 0..MaxPrizePool,
   drawTime : 0..MaxDrawTime,
   timeUntilDraw : 0..MaxTimeUntilDraw]
NoGameInfo ==
  [gameNumber |-> -1, difficulty |-> -1, prizePool |-> -1,
   drawTime |-> -1, timeUntilDraw |-> -1]

NoArgs == [client |-> NoClient, address |-> "<none>"]

\* Error objects: an optional shortMessage (absent, empty or a text) and a message.
ShortMessages == {Undefined, "", "short reason"}
Messages == {"long reason", "other long reason"}
Errors == [shortMessage : ShortMessages, message : Messages]
NoError == [shortMessage |-> Undefined, message |-> "<none>"]

Steps == {"loadConfig", "createPublicClient", "getCurrentGameInfo"}
CallOrder == <<"loadConfig", "createPublicClient", "getCurrentGameInfo">>

(* ------------------------------ output lines --------------------------- *)
NoValue == [fmt |-> "none", arg |-> 0, text |-> ""]
Line(label, value) == [label |-> label, value |-> value]

FetchingLine == Line("Fetching current game status...", NoValue)
HeaderLine == Line("Status:", NoValue)
HintLine ==
  Line("Make sure your settings are correct. Run 'config' to view them and 'setup' to reset them.",
       NoValue)

\* JavaScript truthiness of a string-or-undefined value.
Truthy(v) == v # Undefined /\ v # ""

ErrorText_Swapped(e) ==
  IF Truthy(e.message) THEN e.message ELSE e.shortMessage

\* error.shortMessage || error.message
ErrorText(e) ==
  IF Truthy(e.shortMessage) THEN e.shortMessage ELSE e.message

ErrorLine(e) ==
  Line("Error:", [fmt |-> "raw", arg |-> 0, text |-> ErrorText(e)])

(* ------------------------------ formatting ----------------------------- *)
ToLower(n) == IF n \in {"Worldchain", "WORLDCHAIN"} THEN "worldchain" ELSE n

Currency_IgnoreCase(network) ==
  IF ToLower(network) = "worldchain" THEN CURRENCY.WLD ELSE CURRENCY.ETH

\* network === "worldchain" ? CURRENCY.WLD : CURRENCY.ETH
Currency(network) ==
  IF network = "worldchain" THEN CURRENCY.WLD ELSE CURRENCY.ETH

\* Number(x) of a bigint: exact for every value the model draws (below 2^53).
NumberOf(x) == x

formatDrawTime_NoConversion(drawTime) ==
  [fmt |-> "Date.toLocaleString", arg |-> NumberOf(drawTime), text |-> ""]

\* new Date(Number(drawTime) * 1000).toLocaleString(); arg is the Date argument.
formatDrawTime(drawTime) ==
  [fmt |-> "Date.toLocaleString",
   arg |-> NumberOf(drawTime) * MILLISECONDS_PER_SECOND,
   text |-> ""]

StatusFields_Reordered(gi, network) ==
  << Line(STATUS_LABELS.GAME_ROUND,
          [fmt |-> "toString", arg |-> gi.gameNumber, text |-> ""]),
     Line(STATUS_LABELS.PRIZE_POOL,
          [fmt |-> "formatEther", arg |-> gi.prizePool, text |-> Currency(network)]),
     Line(STATUS_LABELS.DIFFICULTY,
          [fmt |-> "formatDifficulty", arg |-> gi.difficulty, text |-> ""]),
     Line(STATUS_LABELS.NEXT_DRAW, formatDrawTime(gi.drawTime)),
     Line(STATUS_LABELS.TIME_UNTIL_DRAW,
          [fmt |-> "formatTimeUntilDraw", arg |-> NumberOf(gi.timeUntilDraw), text |-> ""]) >>

\* The `fields` array of displayStatusFields.
StatusFields(gi, network) ==
  << Line(STATUS_LABELS.GAME_ROUND,
          [fmt |-> "toString", arg |-> gi.gameNumber, text |-> ""]),
     Line(STATUS_LABELS.DIFFICULTY,
          [fmt |-> "formatDifficulty", arg |-> gi.difficulty, text |-> ""]),
     Line(STATUS_LABELS.PRIZE_POOL,
          [fmt |-> "formatEther", arg |-> gi.prizePool, text |-> Currency(network)]),
     Line(STATUS_LABELS.NEXT_DRAW, formatDrawTime(gi.drawTime)),
     Line(STATUS_LABELS.TIME_UNTIL_DRAW,
          [fmt |-> "formatTimeUntilDraw", arg |-> NumberOf(gi.timeUntilDraw), text |-> ""]) >>

\* Positions in `fields` whose value is computed by an external formatter
\* (formatDifficulty, formatEther, formatTimeUntilDraw), which may throw.
FallibleFields == {2, 3, 5}

PrintedBeforeThrow_Lazy(fields, i) == SubSeq(fields, 1, i - 1)

\* Lines printed when computing field i throws: the array literal is built
\* completely before forEach prints anything, so none.
PrintedBeforeThrow(fields, i) == << >>

QueryArgs_OtherAddress(client, cfg) ==
  [client |-> client,
   address |-> CHOOSE a \in Addresses : a # cfg.contractAddress]

\* Arguments of getCurrentGameInfo(publicClient, config.contractAddress).
QueryArgs(client, cfg) == [client |-> client, address |-> cfg.contractAddress]

Call(fn, outcome) == [fn |-> fn, outcome |-> outcome]

(* -------------------------------- Init --------------------------------- *)
Init ==
  /\ pc = "start"
  /\ stdout = << >>
  /\ stderr = << >>
  /\ exitCode = -1
  /\ config = NoConfig
  /\ publicClient = NoClient
  /\ gameInfo = NoGameInfo
  /\ queryArgs = NoArgs
  /\ error = NoError
  /\ calls = << >>
  /\ failedStep = "none"

(* ------------------------------- actions ------------------------------- *)
\* console.log("Fetching current game status...")
LogFetching ==
  /\ pc = "start"
  /\ stdout' = Append(stdout, FetchingLine)
  /\ pc' = "loadConfig"
  /\ UNCHANGED <<stderr, exitCode, config, publicClient, gameInfo, queryArgs,
                 error, calls, failedStep>>

\* const config = await loadConfig();  -- resolves
LoadConfigOk ==
  /\ pc = "loadConfig"
  /\ \E c \in Configs : config' = c
  /\ calls' = Append(calls, Call("loadConfig", "ok"))
  /\ pc' = "createPublicClient"
  /\ UNCHANGED <<stdout, stderr, exitCode, publicClient, gameInfo, queryArgs,
                 error, failedStep>>

LoadConfigThrows_Continue ==
  /\ pc = "loadConfig"
  /\ \E e \in Errors : error' = e
  /\ calls' = Append(calls, Call("loadConfig", "throw"))
  /\ failedStep' = "loadConfig"
  /\ pc' = "createPublicClient"
  /\ UNCHANGED <<stdout, stderr, exitCode, config, publicClient, gameInfo,
                 queryArgs>>

\* const config = await loadConfig();  -- rejects, control moves to catch
LoadConfigThrows ==
  /\ pc = "loadConfig"
  /\ \E e \in Errors : error' = e
  /\ calls' = Append(calls, Call("loadConfig", "throw"))
  /\ failedStep' = "loadConfig"
  /\ pc' = "catch"
  /\ UNCHANGED <<stdout, stderr, exitCode, config, publicClient, gameInfo,
                 queryArgs>>

\* const publicClient = createPublicClient(config);  -- returns
CreateClientOk ==
  /\ pc = "createPublicClient"
  /\ publicClient' = [config |-> config]
  /\ calls' = Append(calls, Call("createPublicClient", "ok"))
  /\ pc' = "getCurrentGameInfo"
  /\ UNCHANGED <<stdout, stderr, exitCode, config, gameInfo, queryArgs, error,
                 failedStep>>

CreateClientThrows_Retry ==
  /\ pc = "createPublicClient"
  /\ \E e \in Errors : error' = e
  /\ calls' = Append(calls, Call("createPublicClient", "throw"))
  /\ failedStep' = "createPublicClient"
  /\ pc' = IF Len(calls) < 3 THEN "loadConfig" ELSE "catch"
  /\ UNCHANGED <<stdout, stderr, exitCode, config, publicClient, gameInfo,
                 queryArgs>>

\* const publicClient = createPublicClient(config);  -- throws
CreateClientThrows ==
  /\ pc = "createPublicClient"
  /\ \E e \in Errors : error' = e
  /\ calls' = Append(calls, Call("createPublicClient", "throw"))
  /\ failedStep' = "createPublicClient"
  /\ pc' = "catch"
  /\ UNCHANGED <<stdout, stderr, exitCode, config, publicClient, gameInfo,
                 queryArgs>>

\* const gameInfo = await getCurrentGameInfo(publicClient, config.contractAddress);
QueryOk ==
  /\ pc = "getCurrentGameInfo"
  /\ queryArgs' = QueryArgs(publicClient, config)
  /\ \E gi \in GameInfos : gameInfo' = gi
  /\ calls' = Append(calls, Call("getCurrentGameInfo", "ok"))
  /\ pc' = "displayGameStatus"
  /\ UNCHANGED <<stdout, stderr, exitCode, config, publicClient, error,
                 failedStep>>

\* the same call, rejecting
QueryThrows ==
  /\ pc = "getCurrentGameInfo"
  /\ queryArgs' = QueryArgs(publicClient, config)
  /\ \E e \in Errors : error' = e
  /\ calls' = Append(calls, Call("getCurrentGameInfo", "throw"))
  /\ failedStep' = "getCurrentGameInfo"
  /\ pc' = "catch"
  /\ UNCHANGED <<stdout, stderr, exitCode, config, publicClient, gameInfo>>

\* displayGameStatus: console.log("Status:")
LogHeader ==
  /\ pc = "displayGameStatus"
  /\ stdout' = Append(stdout, HeaderLine)
  /\ pc' = "displayStatusFields"
  /\ UNCHANGED <<stderr, exitCode, config, publicClient, gameInfo, queryArgs,
                 error, calls, failedStep>>

\* displayStatusFields: every value computed, then every field printed in order
DisplayStatusFieldsOk ==
  /\ pc = "displayStatusFields"
  /\ stdout' = stdout \o StatusFields(gameInfo, config.network)
  /\ pc' = "return"
  /\ UNCHANGED <<stderr, exitCode, config, publicClient, gameInfo, queryArgs,
                 error, calls, failedStep>>

\* displayStatusFields: an external formatter throws while `fields` is built
DisplayStatusFieldsThrows ==
  /\ pc = "displayStatusFields"
  /\ \E i \in FallibleFields :
       stdout' = stdout \o PrintedBeforeThrow(StatusFields(gameInfo, config.network), i)
  /\ \E e \in Errors : error' = e
  /\ failedStep' = "displayStatusFields"
  /\ pc' = "catch"
  /\ UNCHANGED <<stderr, exitCode, config, publicClient, gameInfo, queryArgs,
                 calls>>

\* infoHandler returns normally; the process ends with the implicit code 0
InfoHandlerReturn ==
  /\ pc = "return"
  /\ exitCode' = 0
  /\ pc' = "done"
  /\ UNCHANGED <<stdout, stderr, config, publicClient, gameInfo, queryArgs,
                 error, calls, failedStep>>

\* handleError: console.error("Error:", error.shortMessage || error.message)
HandleErrorLine ==
  /\ pc = "catch"
  /\ stderr' = Append(stderr, ErrorLine(error))
  /\ pc' = "hint"
  /\ UNCHANGED <<stdout, exitCode, config, publicClient, gameInfo, queryArgs,
                 error, calls, failedStep>>

HandleErrorHint_ExitFirst ==
  /\ pc = "hint"
  /\ exitCode' = 1
  /\ pc' = "exited"
  /\ UNCHANGED <<stdout, stderr, config, publicClient, gameInfo, queryArgs,
                 error, calls, failedStep>>

\* handleError: console.error(<remediation hint>)
HandleErrorHint ==
  /\ pc = "hint"
  /\ stderr' = Append(stderr, HintLine)
  /\ pc' = "exit"
  /\ UNCHANGED <<stdout, exitCode, config, publicClient, gameInfo, queryArgs,
                 error, calls, failedStep>>

ProcessExit_Zero ==
  /\ pc = "exit"
  /\ exitCode' = 0
  /\ pc' = "done"
  /\ UNCHANGED <<stdout, stderr, config, publicClient, gameInfo, queryArgs,
                 error, calls, failedStep>>

\* handleError: process.exit(1)
ProcessExit ==
  /\ pc = "exit"
  /\ exitCode' = 1
  /\ pc' = "exited"
  /\ UNCHANGED <<stdout, stderr, config, publicClient, gameInfo, queryArgs,
                 error, calls, failedStep>>

Next ==
  \/ LogFetching
  \/ LoadConfigOk
  \/ LoadConfigThrows
  \/ CreateClientOk
  \/ CreateClientThrows
  \/ QueryOk
  \/ QueryThrows
  \/ LogHeader
  \/ DisplayStatusFieldsOk
  \/ DisplayStatusFieldsThrows
  \/ InfoHandlerReturn
  \/ HandleErrorLine
  \/ HandleErrorHint
  \/ ProcessExit

Spec == Init /\ [][Next]_vars

(* ------------------------------ helpers -------------------------------- *)
Terminated == pc \in {"done", "exited"}
CalledFns == {calls[i].fn : i \in 1..Len(calls)}
Succeeded(fn) == \E i \in 1..Len(calls) : calls[i] = Call(fn, "ok")
AllCallsSucceeded == \A fn \in Steps : Succeeded(fn)
FieldLabels == {STATUS_LABELS.GAME_ROUND, STATUS_LABELS.DIFFICULTY,
                STATUS_LABELS.PRIZE_POOL, STATUS_LABELS.NEXT_DRAW,
                STATUS_LABELS.TIME_UNTIL_DRAW}
FieldLinesPrinted == {i \in 1..Len(stdout) : stdout[i].label \in FieldLabels}
LinesLabelled(l) == {i \in 1..Len(stdout) : stdout[i].label = l}

TypeOK ==
  /\ pc \in {"start", "loadConfig", "createPublicClient", "getCurrentGameInfo",
             "displayGameStatus", "displayStatusFields", "return", "done",
             "catch", "hint", "exit", "exited"}
  /\ exitCode \in {-1, 0, 1}
  /\ config \in Configs \cup {NoConfig}
  /\ gameInfo \in GameInfos \cup {NoGameInfo}
  /\ error \in Errors \cup {NoError}
  /\ failedStep \in Steps \cup {"none", "displayStatusFields"}

(* ------------------------------ properties ----------------------------- *)
Handling == {"catch", "hint", "exit", "exited"}
BothErrorLines == <<ErrorLine(error), HintLine>>
StdoutLabels == [i \in 1..Len(stdout) |-> stdout[i].label]
ExpectedLabels ==
  <<"Fetching current game status...", "Status:", "Current Game Round",
    "Difficulty", "Prize Pool", "Next Possible Draw Time", "Time Until Draw">>
IsPrefix(s, t) == Len(s) <= Len(t) /\ \A i \in 1..Len(s) : s[i] = t[i]

\* C1: when loadConfig throws, neither createPublicClient nor
\* getCurrentGameInfo is ever called, standard output holds only the
\* "fetching" notice, and the run can only end through exit code 1.
C1_ConfigFailureStopsRun ==
  failedStep = "loadConfig" =>
    /\ CalledFns = {"loadConfig"}
    /\ publicClient = NoClient
    /\ queryArgs = NoArgs
    /\ stdout = <<FetchingLine>>
    /\ pc \in Handling
    /\ exitCode = IF pc = "exited" THEN 1 ELSE -1

C1_Witness ==
  failedStep = "loadConfig" /\ pc = "exited" /\ exitCode = 1

\* C2 (as stated): for an error thrown by getCurrentGameInfo that has a
\* shortMessage property, the error line carries the short message, and the
\* generic message is printed only when the error has no shortMessage.
C2_AsStated ==
  (failedStep = "getCurrentGameInfo" /\ Len(stderr) >= 1) =>
    /\ (error.shortMessage # Undefined
          => stderr[1].value.text = error.shortMessage)
    /\ (stderr[1].value.text = error.message
          => error.shortMessage = Undefined)

\* C2 (amended): for an error thrown by getCurrentGameInfo whose shortMessage
\* is a non-empty string, the error line carries that short message and not
\* the generic message; the generic message is printed only when shortMessage
\* is absent or empty.
C2_ShortMessagePreferred ==
  (failedStep = "getCurrentGameInfo" /\ Len(stderr) >= 1) =>
    /\ stderr[1].label = "Error:"
    /\ (error.shortMessage \notin {Undefined, ""}
          => /\ stderr[1].value.text = error.shortMessage
             /\ stderr[1].value.text # error.message)
    /\ (stderr[1].value.text = error.message
          => error.shortMessage \in {Undefined, ""})

C2_Witness ==
  /\ failedStep = "getCurrentGameInfo"
  /\ Len(stderr) >= 1
  /\ error.shortMessage = "short reason"
  /\ stderr[1].value.text = "short reason"

\* C3: whichever of loadConfig, createPublicClient, getCurrentGameInfo
\* failed, standard error receives the error line, then the hint, and the
\* process exits with code 1 only after both lines were written.
C3_UniformHandling ==
  /\ failedStep \in Steps =>
       /\ pc \in Handling
       /\ pc = "catch" => stderr = << >> /\ exitCode = -1
       /\ pc = "hint" => stderr = <<ErrorLine(error)>> /\ exitCode = -1
       /\ pc = "exit" => stderr = BothErrorLines /\ exitCode = -1
       /\ pc = "exited" => stderr = BothErrorLines /\ exitCode = 1
  /\ exitCode = 1 => stderr = BothErrorLines

C3_Witness ==
  /\ failedStep = "createPublicClient"
  /\ pc = "exited"
  /\ stderr = BothErrorLines
  /\ exitCode = 1

C5_CallsOnceInOrder ==
  /\ IsPrefix([i \in 1..Len(calls) |-> calls[i].fn], CallOrder)
  /\ \A i \in 1..(Len(calls) - 1) : calls[i].outcome = "ok"
  /\ failedStep # "none" => pc \in Handling

C5_Witness ==
  /\ Len(calls) = 3
  /\ calls[3] = Call("getCurrentGameInfo", "throw")
  /\ pc = "exited"

\* C6: the Prize Pool line carries "WLD" when the network is exactly
\* "worldchain" and "ETH" for every other network value, whatever the game
\* info and the contract address are.
C6_CurrencySuffix ==
  \A i \in LinesLabelled("Prize Pool") :
    /\ config.network = "worldchain" => stdout[i].value.text = "WLD"
    /\ config.network # "worldchain" => stdout[i].value.text = "ETH"

C6_Witness ==
  /\ config.network = "worldchain"
  /\ \E i \in LinesLabelled("Prize Pool") : stdout[i].value.text = "WLD"

\* C7: the exit code is 1 exactly when an error was caught; a run without a
\* raised error ends with code 0 and a run with one never ends normally.
C7_ExitCode ==
  /\ exitCode = 1 <=> pc = "exited"
  /\ exitCode = 0 <=> pc = "done"
  /\ pc = "exited" => failedStep # "none" /\ error # NoError
  /\ pc = "done" => failedStep = "none" /\ error = NoError
  /\ failedStep # "none" <=> pc \in Handling
  /\ failedStep # "none" <=> error # NoError

C7_Witness ==
  pc = "exited" /\ exitCode = 1 /\ error # NoError

\* C8: the Date argument of the Next Possible Draw Time line is the draw
\* time in seconds multiplied by 1000 exactly once.
C8_MillisecondsOnce ==
  \A i \in LinesLabelled("Next Possible Draw Time") :
    /\ stdout[i].value.fmt = "Date.toLocaleString"
    /\ stdout[i].value.arg = gameInfo.drawTime * 1000

C8_Witness ==
  /\ gameInfo.drawTime = 2
  /\ \E i \in LinesLabelled("Next Possible Draw Time") :
       stdout[i].value.arg = 2000

\* C9: the query is issued with the client built from the loaded
\* configuration and that configuration's contract address, the currency
\* suffix comes from that configuration's network, and every field value
\* shown comes from the game info returned by the query.
C9_SingleSource ==
  /\ Succeeded("createPublicClient") =>
       config \in Configs /\ publicClient.config = config
  /\ "getCurrentGameInfo" \in CalledFns =>
       /\ queryArgs.client.config = config
       /\ queryArgs.address = config.contractAddress
  /\ \A i \in FieldLinesPrinted :
       /\ gameInfo \in GameInfos
       /\ stdout[i].label = "Current Game Round"
            => stdout[i].value.arg = gameInfo.gameNumber
       /\ stdout[i].label = "Difficulty"
            => stdout[i].value.arg = gameInfo.difficulty
       /\ stdout[i].label = "Prize Pool"
            => /\ stdout[i].value.arg = gameInfo.prizePool
               /\ stdout[i].value.text = "WLD" <=> config.network = "worldchain"
       /\ stdout[i].label = "Next Possible Draw Time"
            => stdout[i].value.arg = gameInfo.drawTime * 1000
       /\ stdout[i].label = "Time Until Draw"
            => stdout[i].value.arg = gameInfo.timeUntilDraw

C9_Witness ==
  /\ pc = "done"
  /\ queryArgs.address = "0xB"
  /\ config.contractAddress = "0xB"
  /\ Cardinality(FieldLinesPrinted) = 5

\* C10: the field lines are printed all or none: when computing a field
\* value throws, standard output holds the notice and the header only and the
\* error is handled like any other (error line, hint, exit code 1); no
\* finished run shows between one and four field lines.
C10_AllOrNothing ==
  /\ Terminated => Cardinality(FieldLinesPrinted) \in {0, 5}
  /\ failedStep = "displayStatusFields" =>
       /\ stdout = <<FetchingLine, HeaderLine>>
       /\ pc \in Handling
       /\ pc = "exited" => stderr = BothErrorLines /\ exitCode = 1

C10_Witness ==
  /\ failedStep = "displayStatusFields"
  /\ pc = "exited"
  /\ stdout = <<FetchingLine, HeaderLine>>

====
